---- MODULE Spec2Model ----
(***************************************************************************)
(* Model of the Video AI Clipper backend (src/main.py, src/schemas.py):    *)
(* the job intake handler POST /api/jobs, the two artifact endpoints       *)
(* GET /api/download/{job_id} and GET /api/subtitles/{job_id}, and the     *)
(* listing GET /api/jobs, over the three storage directories and the       *)
(* "job" collection of the document store.                                 *)
(*                                                                         *)
(* Strings are sequences of one-character strings, so that prefix tests,   *)
(* substring tests, lower-casing and concatenation are computed as the     *)
(* code computes them.  An Optional[T] value is a sequence of at most one  *)
(* T: None is << >> and a present value v is << v >>.                      *)
(***************************************************************************)
EXTENDS Integers, Sequences, FiniteSets, TLC

VARIABLES
    uploads,    \* UPLOAD_DIR: file name -> bytes
    outputs,    \* OUTPUT_DIR: file name -> bytes
    subtitles,  \* SUB_DIR:    file name -> text
    db,         \* the "job" collection: sequence of documents, in insertion order
    inflight,   \* create_job coroutines suspended at `await file.read()`
    issued,     \* the identifiers uuid.uuid4() has handed to a job so far
    posts,      \* number of POST /api/jobs requests received so far
    response    \* the last HTTP response sent, with the request it answers

vars == <<uploads, outputs, subtitles, db, inflight, issued, posts, response>>
stores == <<uploads, outputs, subtitles, db>>

----------------------------------------------------------------------------
(* Bounds of the model *)

\* POST requests per behaviour of the full-service specification Spec
MaxPosts == 2
\* POST requests per behaviour of the intake specification SpecIntake
MaxIntakePosts == 1
\* largest explicit ?limit= tried on GET /api/jobs
MaxLimit == 2

----------------------------------------------------------------------------
(* Optional values and strings *)

None == << >>
Some(v) == << v >>

\* Python truthiness of an Optional[str]: None and "" are falsy
FalsyStr(opt) == opt = None \/ opt[1] = << >>
\* Python truthiness of an Optional[int]: None and 0 are falsy
FalsyInt(opt) == opt = None \/ opt[1] = 0

UpperCase == <<"A","B","C","D","E","F","G","H","I","J","K","L","M",
               "N","O","P","Q","R","S","T","U","V","W","X","Y","Z">>
LowerCase == <<"a","b","c","d","e","f","g","h","i","j","k","l","m",
               "n","o","p","q","r","s","t","u","v","w","x","y","z">>

UpperSet == {UpperCase[k] : k \in 1..Len(UpperCase)}
LowerOf == [c \in UpperSet |-> LowerCase[CHOOSE k \in 1..Len(UpperCase) : UpperCase[k] = c]]

\* one character of str.lower()
LowerChar(c) == IF c \in UpperSet THEN LowerOf[c] ELSE c

\* str.lower()
RECURSIVE lower(_)
lower(s) == IF s = << >> THEN << >> ELSE <<LowerChar(Head(s))>> \o lower(Tail(s))

\* k in s   (substring test)
Contains(k, s) ==
    \E i \in 1..(Len(s) - Len(k) + 1) : \A j \in 1..Len(k) : s[i + j - 1] = k[j]

\* f.startswith(p)
startswith(f, p) == Len(p) <= Len(f) /\ SubSeq(f, 1, Len(p)) = p

min(a, b) == IF a <= b THEN a ELSE b
max(a, b) == IF a >= b THEN a ELSE b

----------------------------------------------------------------------------
(* Identifiers *)

\* a sample of the hexadecimal digits
HexDigits == <<"a", "b">>
Hex == {HexDigits[i] : i \in 1..Len(HexDigits)}

\* str(uuid.uuid4()): groups of hex digits separated by "-" (8-4-4-4-12 in the
\* code; one digit per group and two groups here)
UUIDs == {<<x, "-", y>> : x \in Hex, y \in Hex}

\* the identifiers uuid4 can still return: fresh ones
uuid4Collides(used) == UUIDs
uuid4(used) == UUIDs \ used

\* The store's own document identifier (ObjectId) of the n-th inserted
\* document, and str() of it: hex digits only, no "-"
ObjectId(n) == <<"ObjectId", n>>
StrObjectId(oid) ==
    <<HexDigits[((oid[2] \div Len(HexDigits)) % Len(HexDigits)) + 1],
      HexDigits[(oid[2] % Len(HexDigits)) + 1]>>

----------------------------------------------------------------------------
(* Storage directories *)

EmptyBytes == << >>
NoFiles == [n \in {} |-> EmptyBytes]

\* open(path, "wb"/"w") followed by the writes: creates or replaces the file
WriteFile(dir, name, content) ==
    [n \in DOMAIN dir \cup {name} |-> IF n = name THEN content ELSE dir[n]]

Mp4 == <<".", "m", "p", "4">>
Srt == <<".", "s", "r", "t">>
YoutubePrefix == <<"y", "o", "u", "t", "u", "b", "e", "_">>

\* os.path.join(DIR, name): a path is the directory and the file name
Path(dir, name) == [dir |-> dir, name |-> name]

----------------------------------------------------------------------------
(* Requests to POST /api/jobs *)

\* file names and URLs a client may send; two of them hold a keyword, in
\* mixed or upper case
NameWow == <<"W", "o", "w", ".", "m", "p", "4">>
NameCat == <<"c", "a", "t", ".", "m", "p", "4">>
UrlTips == <<"y", "t", "/", "T", "I", "P", "S">>
UrlCat == <<"y", "t", "/", "c", "a", "t">>

UploadBytes == <<"UPLOADED_BYTES">>
UploadFile(filename) == [filename |-> filename, bytes |-> UploadBytes]

SourceTypes == {"upload", "youtube", "tiktok"}
Files == {None, Some(UploadFile(NameWow)), Some(UploadFile(NameCat))}
Urls == {None, Some(<< >>), Some(UrlTips), Some(UrlCat)}
Durations == {4, 5, 79, 80, 180, 181}
SubtitleModes == {"none", "auto", "custom", "karaoke"}
AspectRatios == {"9:16", "3:2"}
Resolution == "1080p"

\* The form fields of create_job.  The fields no property below reads keep
\* the defaults the signature gives them.
FormRequest(st, f, url, d, sm, ar) ==
    [source_type |-> st, file |-> f, youtube_url |-> url,
     duration_seconds |-> d, subtitle_mode |-> sm,
     custom_subtitle_text |-> None, subtitle_language |-> None,
     subtitle_template |-> None, subtitle_position |-> Some("bottom"),
     subtitle_offset_y |-> 0, video_effects |-> Some(<< >>),
     aspect_ratio |-> Some(ar), resolution |-> Some(Resolution),
     hard_subtitles |-> FALSE]

\* submissions that vary what the score reads: the source, the names and
\* the duration
ScoreRequests ==
    {FormRequest(st, f, url, d, "none", "9:16") :
        st \in {"upload", "youtube"}, f \in Files, url \in Urls,
        d \in Durations}

\* submissions that vary what the intake validation and the Job model read
ValidationRequests ==
    {FormRequest(st, f, url, d, sm, ar) :
        st \in SourceTypes, f \in {None, Some(UploadFile(NameCat))},
        url \in {None, Some(<< >>), Some(UrlCat)}, d \in {4, 5},
        sm \in SubtitleModes, ar \in AspectRatios}

Requests == ScoreRequests \cup ValidationRequests

\* the two well-formed submissions the full-service specification sends: an
\* upload that asks for subtitles and a URL that does not
ServiceRequests ==
    {FormRequest("upload", Some(UploadFile(NameCat)), None, 5, "auto", "9:16"),
     FormRequest("youtube", None, Some(UrlCat), 5, "none", "9:16")}

----------------------------------------------------------------------------
(* src/main.py *)

KEYWORDS ==
    {<<"w", "o", "w">>, <<"a", "m", "a", "z", "i", "n", "g">>,
     <<"h", "a", "c", "k">>, <<"v", "i", "r", "a", "l">>,
     <<"m", "o", "n", "e", "y">>, <<"t", "i", "p", "s">>}

\* any(k in (name or "").lower() for k in [...])
HasKeyword(name) ==
    LET lowered == lower(name)
    IN  \E k \in KEYWORDS : Contains(k, lowered)

ScoreBase == 20
ScoreBonus == 15
ScoreMax == 100

compute_viral_score_bonus_always(name, duration) ==
    min(ScoreMax, min(ScoreMax, max(0, ScoreBase + duration)) + ScoreBonus)

compute_viral_score(name, duration) ==
    LET base == min(ScoreMax, max(0, ScoreBase + duration))
        bumped == IF HasKeyword(name) THEN base + ScoreBonus ELSE base
    IN  min(ScoreMax, bumped)

\* Form(..., ge=5, le=180): the framework rejects the request before the
\* handler runs
MinDuration == 5
MaxDuration == 180
FormValid(r) ==
    r.duration_seconds >= MinDuration /\ r.duration_seconds <= MaxDuration

Video == <<"v", "i", "d", "e", "o">>

\* name_for_score = original_name or youtube_url or "video"
NameForScore(original_name, youtube_url) ==
    IF ~FalsyStr(original_name) THEN original_name[1]
    ELSE IF ~FalsyStr(youtube_url) THEN youtube_url[1]
    ELSE Video

\* the bytes of the output artifact: the settings line, then the payload
OutputBytes(r) ==
    << <<"OUTPUT", r.aspect_ratio, r.resolution, r.video_effects,
         r.hard_subtitles, r.subtitle_position, r.subtitle_offset_y,
         r.subtitle_template>>,
       "FAKE_MP4_DATA" >>

SubtitleWantedAlways(subtitle_mode) == TRUE
\* if subtitle_mode in {"auto", "custom"}
SubtitleWanted(subtitle_mode) == subtitle_mode \in {"auto", "custom"}

\* the single-cue SRT text
SubtitleText(r) ==
    << "1\n00:00:00,000 --> 00:00:02,000\n",
       IF ~FalsyStr(r.custom_subtitle_text) THEN r.custom_subtitle_text[1]
       ELSE <<"Auto-generated subtitles",
              IF ~FalsyStr(r.subtitle_language) THEN r.subtitle_language[1]
              ELSE "auto">>,
       <<"# style", IF ~FalsyStr(r.subtitle_template) THEN r.subtitle_template[1]
                    ELSE "default",
         r.subtitle_position, r.subtitle_offset_y>> >>

DownloadUrl(job_id) == <<"/api/download/", job_id>>
SubtitleUrl(job_id) == <<"/api/subtitles/", job_id>>

\* Job(...) as create_job builds it
Job(r, job_id, original_name, stored_path, output_video_path, subtitle_file_path, score) ==
    [source_type |-> r.source_type,
     filename |-> original_name,
     youtube_url |-> r.youtube_url,
     stored_path |-> stored_path,
     output_path |-> output_video_path,
     subtitle_path |-> subtitle_file_path,
     duration_seconds |-> r.duration_seconds,
     subtitle_mode |-> r.subtitle_mode,
     custom_subtitle_text |-> r.custom_subtitle_text,
     subtitle_language |-> r.subtitle_language,
     subtitle_template |-> r.subtitle_template,
     subtitle_position |->
        IF r.subtitle_position \in {Some("top"), Some("middle"), Some("bottom")}
        THEN r.subtitle_position ELSE Some("bottom"),
     subtitle_offset_y |-> r.subtitle_offset_y,
     video_effects |-> << >>,
     aspect_ratio |-> r.aspect_ratio,
     resolution |-> r.resolution,
     hard_subtitles |-> r.hard_subtitles,
     status |-> "done",
     error_message |-> None,
     viral_score |-> Some(score),
     download_url |-> Some(DownloadUrl(job_id)),
     subtitle_url |->
        IF subtitle_file_path # None THEN Some(SubtitleUrl(job_id)) ELSE None]

(* src/schemas.py: what the Job model accepts; anything else raises a
   validation error inside create_job *)
JobValid(job) ==
    /\ job.source_type \in {"upload", "youtube"}
    /\ job.duration_seconds >= MinDuration /\ job.duration_seconds <= MaxDuration
    /\ job.subtitle_mode \in {"none", "auto", "custom"}
    /\ job.subtitle_position \in {None, Some("top"), Some("middle"), Some("bottom")}
    /\ job.aspect_ratio \in {None, Some("9:16"), Some("1:1"), Some("4:5"), Some("16:9")}
    /\ job.resolution \in {None, Some("720p"), Some("1080p")}
    /\ job.status \in {"pending", "processing", "done", "error"}
    /\ job.viral_score = None
       \/ (job.viral_score[1] >= 0 /\ job.viral_score[1] <= ScoreMax)

(* database.py: the persistence collaborator *)

\* create_document(collection, data): the document as stored, with the
\* store's own _id
StoredDocument(coll, job) == job @@ ("_id" :> ObjectId(Len(coll)))

\* get_documents(collection, {}, limit): at most `limit` documents
get_documents(coll, limit) == SubSeq(coll, 1, min(limit, Len(coll)))

----------------------------------------------------------------------------
(* The state after start-up: three empty directories, an empty collection *)

NoResponse == [op |-> "none", req |-> None, status |-> 0, body |-> None]

Init ==
    /\ uploads = NoFiles
    /\ outputs = NoFiles
    /\ subtitles = NoFiles
    /\ db = << >>
    /\ inflight = {}
    /\ issued = {}
    /\ posts = 0
    /\ response = NoResponse

Respond(op, req, status, body) ==
    response' = [op |-> op, req |-> req, status |-> status, body |-> body]

Detail(text) == [detail |-> text]

----------------------------------------------------------------------------
(* POST /api/jobs *)

\* create_job from "Simulate processing output" to the return: the output
\* artifact, the subtitle artifact, the score, the Job record, the insert.
\* `stored` is UPLOAD_DIR once the source file is written.
FinishJob(r, job_id, original_name, stored_name, stored) ==
    LET stored_path == Some(Path("uploads", stored_name))
        output_name == job_id \o Mp4
        output_video_path == Some(Path("outputs", output_name))
        wanted == SubtitleWanted(r.subtitle_mode)
        subtitle_name == job_id \o Srt
        subtitle_file_path ==
            IF wanted THEN Some(Path("subtitles", subtitle_name)) ELSE None
        score == compute_viral_score(
                    NameForScore(original_name, r.youtube_url),
                    r.duration_seconds)
        job == Job(r, job_id, original_name, stored_path, output_video_path,
                   subtitle_file_path, score)
        doc == StoredDocument(db, job)
    IN  /\ uploads' = stored
        /\ outputs' = WriteFile(outputs, output_name, OutputBytes(r))
        /\ subtitles' = IF wanted
                        THEN WriteFile(subtitles, subtitle_name, SubtitleText(r))
                        ELSE subtitles
        /\ IF JobValid(job)
           THEN /\ db' = Append(db, doc)
                /\ Respond("create_job", r, 200,
                           [id |-> StrObjectId(doc._id),
                            status |-> job.status,
                            viral_score |-> Some(score),
                            download_url |-> job.download_url,
                            subtitle_url |-> job.subtitle_url])
           ELSE \* the validation error is not caught: the files stay
                /\ db' = db
                /\ Respond("create_job", r, 500, Detail("Internal Server Error"))

\* the source the chosen source_type needs is absent: `file is None` for
\* an upload, `not youtube_url` otherwise
MissingSourceNoneOnly(r) ==
    IF r.source_type = "upload" THEN r.file = None ELSE r.youtube_url = None
MissingSource(r) ==
    IF r.source_type = "upload" THEN r.file = None ELSE FalsyStr(r.youtube_url)

\* the HTTPException(400) create_job raises for r, if any
Rejection(r) ==
    IF r.subtitle_mode \notin {"none", "auto", "custom"}
    THEN Some("Invalid subtitle_mode")
    ELSE IF r.source_type \notin {"upload", "youtube"}
    THEN Some("Invalid source_type")
    ELSE IF MissingSource(r)
    THEN Some(IF r.source_type = "upload"
              THEN "File is required for upload source"
              ELSE "youtube_url is required for youtube source")
    ELSE None

\* create_job from the request to the return, or to its suspension at
\* `await file.read()` with the upload file opened for writing
create_job(r) ==
    /\ posts' = posts + 1
    /\ IF ~FormValid(r)
       THEN /\ Respond("create_job", r, 422, Detail("validation error"))
            /\ UNCHANGED <<stores, inflight, issued>>
       ELSE IF Rejection(r) # None
       THEN /\ Respond("create_job", r, 400, Detail(Rejection(r)[1]))
            /\ UNCHANGED <<stores, inflight, issued>>
       ELSE \E job_id \in uuid4(issued) :
            /\ issued' = issued \cup {job_id}
            /\ IF r.source_type = "upload"
               THEN LET original_name == r.file[1].filename
                        stored_name == job_id \o <<"_">> \o original_name
                    IN  /\ uploads' = WriteFile(uploads, stored_name, EmptyBytes)
                        /\ inflight' = inflight \cup
                                {[req |-> r, job_id |-> job_id]}
                        /\ UNCHANGED <<outputs, subtitles, db, response>>
               ELSE LET original_name == YoutubePrefix \o job_id \o Mp4
                    IN  /\ FinishJob(r, job_id, Some(original_name), original_name,
                              WriteFile(uploads, original_name,
                                  <<"SIMULATED_YT_DOWNLOAD from ",
                                    r.youtube_url[1]>>))
                        /\ UNCHANGED inflight

\* a suspended create_job resumes: the upload's bytes are written and the
\* handler runs to its return
create_job_resume(p) ==
    LET r == p.req
        original_name == r.file[1].filename
        stored_name == p.job_id \o <<"_">> \o original_name
    IN  /\ inflight' = inflight \ {p}
        /\ FinishJob(r, p.job_id, Some(original_name), stored_name,
                     WriteFile(uploads, stored_name, r.file[1].bytes))
        /\ UNCHANGED <<issued, posts>>

----------------------------------------------------------------------------
(* GET /api/download/{job_id} and GET /api/subtitles/{job_id} *)

\* the candidates of the fallback scan of a directory
Candidates(dir, job_id) == {f \in DOMAIN dir : startswith(f, job_id)}

\* the files download_output may serve for job_id: the exact file, else
\* any one file of the scan (os.listdir fixes no order); none means 404
download_output_exact(job_id) ==
    IF job_id \o Mp4 \in DOMAIN outputs THEN {job_id \o Mp4} ELSE {}
download_output_files(job_id) ==
    IF job_id \o Mp4 \in DOMAIN outputs THEN {job_id \o Mp4}
    ELSE Candidates(outputs, job_id)

download_output(job_id) ==
    /\ LET served == download_output_files(job_id)
       IN  IF served = {}
           THEN Respond("download_output", Some(job_id), 404,
                        Detail("File not found"))
           ELSE \E f \in served :
                    Respond("download_output", Some(job_id), 200,
                            [file |-> Path("outputs", f), bytes |-> outputs[f]])
    /\ UNCHANGED <<stores, inflight, issued, posts>>

\* the files download_subtitles may serve for job_id: the exact file only
download_subtitles_scan(job_id) ==
    IF job_id \o Srt \in DOMAIN subtitles THEN {job_id \o Srt}
    ELSE Candidates(subtitles, job_id)
download_subtitles_files(job_id) ==
    IF job_id \o Srt \in DOMAIN subtitles THEN {job_id \o Srt} ELSE {}

download_subtitles(job_id) ==
    /\ LET served == download_subtitles_files(job_id)
       IN  IF served = {}
           THEN Respond("download_subtitles", Some(job_id), 404,
                        Detail("Subtitle not found"))
           ELSE \E f \in served :
                    Respond("download_subtitles", Some(job_id), 200,
                            [file |-> Path("subtitles", f), bytes |-> subtitles[f]])
    /\ UNCHANGED <<stores, inflight, issued, posts>>

----------------------------------------------------------------------------
(* GET /api/jobs *)

DefaultLimit == 20

\* d["id"] = str(d.get("_id")); d.pop("_id", None)
PublicDocument(d) ==
    [k \in (DOMAIN d \cup {"id"}) \ {"_id"} |->
        IF k = "id" THEN StrObjectId(d._id) ELSE d[k]]

\* limit or 20
EffectiveLimit(limit) == IF FalsyInt(limit) THEN DefaultLimit ELSE limit[1]

\* `given` is << >> when the query string has no limit: the parameter's
\* default applies
list_jobs(given) ==
    /\ LET limit == IF given = None THEN Some(DefaultLimit) ELSE given
           docs == get_documents(db, EffectiveLimit(limit))
       IN  Respond("list_jobs", given, 200,
                   [items |-> [i \in 1..Len(docs) |-> PublicDocument(docs[i])]])
    /\ UNCHANGED <<stores, inflight, issued, posts>>

----------------------------------------------------------------------------
(* Specifications *)

\* the job_id path parameters tried: every non-empty prefix of a name an
\* artifact can have, and the identifiers the store hands out
JobIdInputs ==
    UNION {{SubSeq(u \o Mp4, 1, k) : k \in 1..(Len(u) + 1)} : u \in UUIDs}
    \cup {StrObjectId(ObjectId(n)) : n \in 0..MaxPosts}

Limits == {None} \cup {Some(n) : n \in 0..MaxLimit}

\* the whole service, with concurrent well-formed submissions
Next ==
    \/ \E r \in ServiceRequests : posts < MaxPosts /\ create_job(r)
    \/ \E p \in inflight : create_job_resume(p)
    \/ \E job_id \in JobIdInputs : download_output(job_id)
    \/ \E job_id \in JobIdInputs : download_subtitles(job_id)
    \/ \E given \in Limits : list_jobs(given)

Spec == Init /\ [][Next]_vars

\* the intake handler alone, with every combination of form values
NextIntake ==
    \/ \E r \in Requests : posts < MaxIntakePosts /\ create_job(r)
    \/ \E p \in inflight : create_job_resume(p)

SpecIntake == Init /\ [][NextIntake]_vars

----------------------------------------------------------------------------
(* Properties of the intake handler, checked under SpecIntake *)

PostAnswered == response.op = "create_job"
PostSucceeded == response.op = "create_job" /\ response.status = 200

\* the job identifier a document was built from, read off its download URL
JobIdOf(doc) == doc.download_url[1][2]

\* the documents stored under the identifier a response returned
DocsWithId(id) == {i \in 1..Len(db) : StrObjectId(db[i]._id) = id}

\* clamp(20 + d, 0, 100), written out
ClampedBase(d) ==
    IF 20 + d > 100 THEN 100 ELSE IF 20 + d < 0 THEN 0 ELSE 20 + d

\* the score a response returned is the score of the document it names
ScorePersisted ==
    /\ DocsWithId(response.body.id) # {}
    /\ \A i \in DocsWithId(response.body.id) :
            db[i].viral_score = response.body.viral_score

\* the keyword is in the name of the source the request selects
KeywordInSource(r) ==
    \/ r.source_type = "upload" /\ HasKeyword(r.file[1].filename)
    \/ r.source_type = "youtube" /\ HasKeyword(r.youtube_url[1])

\* C1: a successful submission whose uploaded file name (upload) or URL
\* (youtube) holds a keyword, in any case, is scored
\* min(100, clamp(20 + d, 0, 100) + 15), in the response and in the record.
C1_KeywordBonus ==
    PostSucceeded /\ KeywordInSource(response.req) =>
        /\ response.body.viral_score =
              Some(min(100, ClampedBase(response.req.duration_seconds) + 15))
        /\ ScorePersisted

\* neither the file name nor the URL of the request holds a keyword
NoKeyword(r) ==
    /\ r.file # None => ~HasKeyword(r.file[1].filename)
    /\ r.youtube_url # None => ~HasKeyword(r.youtube_url[1])

\* C7: a successful submission without a keyword in its file name and URL is
\* scored clamp(20 + d, 0, 100), in the response and in the record; every
\* score is within [0, 100], and is 100 when d >= 80.
C7_PlainScore ==
    PostSucceeded =>
        LET d == response.req.duration_seconds
            score == response.body.viral_score
        IN  /\ score # None
            /\ score[1] >= 0 /\ score[1] <= 100
            /\ d >= 80 => score[1] = 100
            /\ NoKeyword(response.req) => score[1] = ClampedBase(d)
            /\ ScorePersisted

\* C7's case: a long clip without keywords, scored at the clamp
C7_Witness ==
    /\ PostSucceeded
    /\ NoKeyword(response.req)
    /\ response.req.duration_seconds = 180
    /\ response.body.viral_score = Some(100)
    /\ \E i \in 1..Len(db) : db[i].viral_score = Some(100)

\* C5: in every record, subtitle_mode none means no subtitle_path, no
\* subtitle_url and no {job_id}.srt file, and subtitle_url is set exactly
\* when the mode is auto or custom and the subtitle file exists; the response
\* carries a subtitle_url under exactly the same condition.
C5_SubtitleConsistency ==
    /\ \A i \in 1..Len(db) :
          LET doc == db[i]
              srt == JobIdOf(doc) \o Srt
          IN  /\ doc.subtitle_mode = "none" =>
                    /\ doc.subtitle_path = None
                    /\ doc.subtitle_url = None
                    /\ srt \notin DOMAIN subtitles
              /\ doc.subtitle_url # None <=>
                    /\ doc.subtitle_mode \in {"auto", "custom"}
                    /\ doc.subtitle_path = Some(Path("subtitles", srt))
                    /\ srt \in DOMAIN subtitles
              /\ doc.subtitle_url # None =>
                    doc.subtitle_url = Some(SubtitleUrl(JobIdOf(doc)))
    /\ PostSucceeded =>
          /\ response.req.subtitle_mode = "none" =>
                response.body.subtitle_url = None
          /\ response.body.subtitle_url # None <=>
                response.req.subtitle_mode \in {"auto", "custom"}
          /\ \A i \in DocsWithId(response.body.id) :
                db[i].subtitle_url = response.body.subtitle_url

\* C5's case: a record without subtitles beside no subtitle file
C5_Witness ==
    /\ PostSucceeded
    /\ response.req.subtitle_mode = "none"
    /\ response.body.subtitle_url = None
    /\ Len(db) = 1 /\ db[1].subtitle_path = None
    /\ subtitles = NoFiles
    /\ outputs # NoFiles

\* one of the four intake failures the handler itself tests for
BadSubmission(r) ==
    \/ r.subtitle_mode \notin {"none", "auto", "custom"}
    \/ r.source_type \notin {"upload", "youtube"}
    \/ r.source_type = "upload" /\ r.file = None
    \/ r.source_type = "youtube" /\ (r.youtube_url = None \/ r.youtube_url = Some(<< >>))

\* C6 as stated: every such submission is answered 400 and changes no
\* directory and no record.
C6_Rejected400 ==
    [][response' # response /\ response'.op = "create_job"
         /\ BadSubmission(response'.req)
       => response'.status = 400 /\ UNCHANGED stores]_vars

\* C6, amended: every such submission is answered with a client error, 400
\* when the form passes the framework's duration bound and 422 when it does
\* not, and changes no directory and no record.
C6_RejectedClientError ==
    [][response' # response /\ response'.op = "create_job"
         /\ BadSubmission(response'.req)
       => /\ response'.status =
                (IF FormValid(response'.req) THEN 400 ELSE 422)
          /\ UNCHANGED stores]_vars

\* C6's case: an empty URL for a youtube source, refused with nothing written
C6_Witness ==
    /\ PostAnswered
    /\ response.req.source_type = "youtube"
    /\ response.req.youtube_url = Some(<< >>)
    /\ response.req.subtitle_mode = "auto"
    /\ response.status = 400
    /\ uploads = NoFiles /\ outputs = NoFiles /\ subtitles = NoFiles
    /\ db = << >>

\* the submission passes the intake validation
PassesIntake(r) ==
    /\ r.subtitle_mode \in {"none", "auto", "custom"}
    /\ r.source_type \in {"upload", "youtube"}
    /\ r.source_type = "upload" => r.file # None
    /\ r.source_type = "youtube" => ~FalsyStr(r.youtube_url)
    /\ r.duration_seconds >= 5 /\ r.duration_seconds <= 180

\* C8: every submission that passes the intake validation inserts exactly
\* one record, with status done, whatever its other fields; no output
\* artifact exists without its record; no record has another status.
C8_ValidSubmissionInsertsOneDone ==
    /\ PostAnswered /\ PassesIntake(response.req) =>
          /\ response.status = 200
          /\ Cardinality(DocsWithId(response.body.id)) = 1
    /\ \A f \in DOMAIN outputs :
          Cardinality({i \in 1..Len(db) :
                          db[i].output_path = Some(Path("outputs", f))}) = 1
    /\ \A i \in 1..Len(db) : db[i].status = "done"

----------------------------------------------------------------------------
(* Properties of the whole service, checked under Spec *)

\* the identifiers of the jobs whose output artifact was written
KnownJobIds == {u \in UUIDs : u \o Mp4 \in DOMAIN outputs}

\* C2: the id a successful submission returns is known to the download
\* endpoint, which serves that job's output artifact (the settings line and
\* then FAKE_MP4_DATA) for it, and download_url is the download path of that
\* same id.
C2_ReturnedIdRetrievable ==
    PostSucceeded =>
        /\ download_output_files(response.body.id) # {}
        /\ \A f \in download_output_files(response.body.id) :
              /\ \A i \in DocsWithId(response.body.id) :
                    db[i].output_path = Some(Path("outputs", f))
              /\ outputs[f] = OutputBytes(response.req)
        /\ response.body.download_url = Some(DownloadUrl(response.body.id))

DownloadAnswered == response'.op = "download_output" /\ response' # response
SubtitlesAnswered == response'.op = "download_subtitles" /\ response' # response

\* C3 as stated: a job_id that is not the identifier of a job whose output
\* was written is answered 404, proper prefixes of identifiers included.
C3_UnknownIdNotFound ==
    [][DownloadAnswered /\ response'.req[1] \notin KnownJobIds
       => response'.status = 404]_vars

\* C3, amended: the download endpoint answers 404 exactly for the job_ids
\* that no file name of the outputs directory begins with; any other job_id,
\* a proper prefix of an identifier included, is served a file whose name
\* begins with it.
C3_NotFoundIffNoPrefix ==
    [][DownloadAnswered =>
         LET job_id == response'.req[1]
         IN  /\ response'.status = 404 <=> Candidates(outputs, job_id) = {}
             /\ response'.status # 404 =>
                   /\ response'.status = 200
                   /\ response'.body.file.name \in Candidates(outputs, job_id)
                   /\ response'.body.bytes = outputs[response'.body.file.name]]_vars

\* C3's case: an id that begins no stored file name, refused while other
\* jobs' artifacts exist
C3_Witness ==
    /\ response.op = "download_output"
    /\ response.status = 404
    /\ response.req[1] \in UUIDs
    /\ outputs # NoFiles
    /\ Candidates(outputs, response.req[1]) = {}

\* C4 as stated: on both endpoints, when the exact file is absent and a
\* file of the endpoint's directory begins with the identifier, a file is
\* served; 404 only when there is neither.
C4_BothEndpointsFallBack ==
    [][/\ DownloadAnswered =>
            (response'.status = 404 <=>
                Candidates(outputs, response'.req[1]) = {})
       /\ SubtitlesAnswered =>
            (response'.status = 404 <=>
                Candidates(subtitles, response'.req[1]) = {})]_vars

\* C4, amended: only the download endpoint falls back to the prefix scan.
\* It serves the exact file {job_id}.mp4 when present, else a file whose
\* name begins with job_id, else 404.  The subtitles endpoint serves
\* {job_id}.srt when present and answers 404 otherwise, prefix match or not.
C4_FallbackOnDownloadOnly ==
    [][/\ DownloadAnswered =>
            LET job_id == response'.req[1]
                exact == job_id \o Mp4
            IN  IF exact \in DOMAIN outputs
                THEN /\ response'.status = 200
                     /\ response'.body.file = Path("outputs", exact)
                ELSE IF Candidates(outputs, job_id) # {}
                THEN /\ response'.status = 200
                     /\ response'.body.file.name \in Candidates(outputs, job_id)
                ELSE response'.status = 404
       /\ SubtitlesAnswered =>
            LET job_id == response'.req[1]
                exact == job_id \o Srt
            IN  IF exact \in DOMAIN subtitles
                THEN /\ response'.status = 200
                     /\ response'.body.file = Path("subtitles", exact)
                     /\ response'.body.bytes = subtitles[exact]
                ELSE response'.status = 404]_vars

\* C4's case: the subtitles endpoint refuses a prefix that a stored
\* subtitle file begins with
C4_Witness ==
    /\ response.op = "download_subtitles"
    /\ response.status = 404
    /\ Candidates(subtitles, response.req[1]) # {}

\* the identifiers of the jobs in flight and of the stored records
InflightIds == {p.job_id : p \in inflight}
RecordIds == {JobIdOf(db[i]) : i \in 1..Len(db)}

\* every file of dir keeps its bytes
Kept(dir, dirNext) ==
    \A n \in DOMAIN dir : n \in DOMAIN dirNext /\ dirNext[n] = dir[n]

\* the artifacts a record points at hold that record's own settings
OwnArtifacts(doc) ==
    /\ doc.output_path[1].name = JobIdOf(doc) \o Mp4
    /\ doc.output_path[1].name \in DOMAIN outputs
    /\ outputs[doc.output_path[1].name] =
          << <<"OUTPUT", doc.aspect_ratio, doc.resolution, Some(<< >>),
               doc.hard_subtitles, doc.subtitle_position,
               doc.subtitle_offset_y, doc.subtitle_template>>,
             "FAKE_MP4_DATA" >>
    /\ doc.stored_path[1].name \in DOMAIN uploads
    /\ startswith(doc.stored_path[1].name,
                  IF doc.source_type = "upload" THEN JobIdOf(doc)
                  ELSE YoutubePrefix \o JobIdOf(doc))
    /\ uploads[doc.stored_path[1].name] =
          IF doc.source_type = "upload" THEN UploadBytes
          ELSE <<"SIMULATED_YT_DOWNLOAD from ", doc.youtube_url[1]>>
    /\ doc.subtitle_path # None =>
          /\ doc.subtitle_path[1].name = JobIdOf(doc) \o Srt
          /\ doc.subtitle_path[1].name \in DOMAIN subtitles
    /\ doc.subtitle_path = None => JobIdOf(doc) \o Srt \notin DOMAIN subtitles

\* C9: under every interleaving of submissions, the jobs have distinct
\* identifiers, no step changes or removes a file another job wrote (an
\* upload file goes from empty to its own request's bytes once, when that
\* request resumes), records are only appended, and each record's artifacts
\* hold its own settings.
C9_ConcurrentJobsIndependent ==
    [][/\ Cardinality(InflightIds' \cup RecordIds') =
              Cardinality(inflight') + Len(db')
       /\ Kept(outputs, outputs')
       /\ Kept(subtitles, subtitles')
       /\ \A n \in DOMAIN uploads :
              /\ n \in DOMAIN uploads'
              /\ \/ uploads'[n] = uploads[n]
                 \/ /\ uploads[n] = EmptyBytes
                    /\ \E p \in inflight \ inflight' :
                          /\ n = p.job_id \o <<"_">> \o p.req.file[1].filename
                          /\ uploads'[n] = p.req.file[1].bytes
       /\ Len(db') >= Len(db) /\ SubSeq(db', 1, Len(db)) = db
       /\ \A i \in 1..Len(db') : OwnArtifacts(db[i])']_vars

\* C9's case: two submissions suspended at the same time, each with its own
\* opened upload file
C9_Witness ==
    /\ Cardinality(inflight) = 2
    /\ Cardinality(DOMAIN uploads) = 2

\* C10: the listing returns at most N items for every limit N the caller
\* supplies, and every item has a string id and no _id.
C10_ListAtMostLimit ==
    response.op = "list_jobs" =>
        /\ response.req # None =>
              Len(response.body.items) <= response.req[1]
        /\ \A i \in 1..Len(response.body.items) :
              LET item == response.body.items[i]
              IN  /\ "id" \in DOMAIN item
                  /\ "_id" \notin DOMAIN item
                  /\ \A j \in 1..Len(item.id) : item.id[j] \in Hex

====
